---- MODULE Spec2Model ----
(***************************************************************************)
(* Venus queue synchronisation engine (src/venus/vkr_queue.c).             *)
(*                                                                         *)
(* The model follows the C code statement by statement where threads can   *)
(* interleave.  One dispatch thread ("ctx") issues vkr_queue_sync_submit,  *)
(* vkr_queue_destroy and the vkGetDeviceQueue* commands; every queue has   *)
(* its own vkr_queue_thread.  The Vulkan driver is an environment that     *)
(* answers CreateFence, QueueSubmit and WaitForFences nondeterministically *)
(* and signals submitted fences in any order.                              *)
(*                                                                         *)
(* Variables whose comment says "history" are not program state: they      *)
(* record what was passed to, and reported by, the program so that the     *)
(* properties can speak about it.                                          *)
(***************************************************************************)
EXTENDS Integers, Sequences, FiniteSets

\* ------------------------------------------------------------------ bounds

\* Number of vkr_queue_sync_submit calls issued in one behaviour of Spec.
MaxSubmits == 3

\* Number of vkr_queue_sync_submit calls issued in one behaviour of SpecTwo.
MaxSubmitsTwo == 2

\* Number of vkr_queue_sync_submit calls issued in one behaviour of SpecFair.
MaxSubmitsFair == 2

\* Number of ring slots of ctx->sync_queues (ARRAY_SIZE), scaled down.
RingTableSize == 3

\* Largest guest object id offered to vkGetDeviceQueue*.
MaxObjectId == 2

\* ------------------------------------------------------------- value sets

Queues == {"A", "B"}

NoThread == "none"
CtxThread == "ctx"
NULL == "NULL"

\* Lookup keys of vkGetDeviceQueue*: one per queue plus one matching no queue.
QueueKeys == Queues \cup {"unknown"}

\* Ring indices the caller passes to vkr_queue_sync_submit.
SubmitRings == {0, 1}

\* Fence flags the caller passes to vkr_queue_sync_submit (stored, never read
\* by vkr_queue.c).
FenceFlags == {0}

\* Ring indices carried by VkDeviceQueueTimelineInfoMESA (one past the table).
TimelineRings == 0 .. RingTableSize

ObjectIds == 0 .. MaxObjectId

\* The types of object this file registers with the context, and the mark of
\* an id that names no object.
ObjectTypes == {"queue", "fence", "semaphore", "event"}
NoObject == "none"

\* resourceId of VkImportSemaphoreResourceInfo100000MESA: 0, or a resource.
ResourceIds == {0, 1}

VK_SUCCESS == "VK_SUCCESS"
VK_TIMEOUT == "VK_TIMEOUT"
VK_ERROR_DEVICE_LOST == "VK_ERROR_DEVICE_LOST"
VK_ERROR_OUT_OF_HOST_MEMORY == "VK_ERROR_OUT_OF_HOST_MEMORY"

\* ------------------------------------------------------------------ state

VARIABLES
  syncs,            \* every vkr_queue_sync ever malloc'ed: Seq of records
  free_syncs,       \* dev->free_syncs: Seq of indices into syncs
  free_sync_mutex,  \* dev->free_sync_mutex: the thread holding it
  alive,            \* alive[q]: the queue exists (is on dev->queues)
  pending_syncs,    \* queue->pending_syncs: Seq of indices into syncs
  mutex,            \* queue->mutex: the thread holding it
  join,             \* queue->join
  ring_idx,         \* queue->ring_idx
  base_id,          \* queue->base.id
  sync_queues,      \* ctx->sync_queues[]
  object_table,     \* the context's objects: per id, the type registered
  fatal,            \* the decoder's fatal flag
  wpc,              \* position of each vkr_queue_thread
  wsync,            \* vkr_queue_thread's local `sync`
  wresult,          \* vkr_queue_thread's local `result`
  cpc,              \* position of the dispatch thread
  frame,            \* arguments and locals of the dispatch thread's call
  calls,            \* history: per submit call, its arguments and driver result
  appended,         \* history: per queue, tokens in list_addtail order
  retired,          \* history: per queue, arguments of retire_fence calls
  waited,           \* history: tokens WaitForFences was called for
  overlap           \* history: a submit began while an object was outside the pool

vars == << syncs, free_syncs, free_sync_mutex, alive, pending_syncs, mutex, join,
           ring_idx, base_id, sync_queues, object_table, fatal, wpc, wsync,
           wresult, cpc, frame, calls, appended, retired, waited, overlap >>

devvars == << syncs, free_syncs, free_sync_mutex >>
ringvars == << ring_idx, base_id, sync_queues, object_table, fatal >>
workervars == << wpc, wsync, wresult >>
histvars == << calls, appended, retired, waited, overlap >>

\* ------------------------------------------------------- util/list.h

LIST_IS_EMPTY(list) == list = << >>

\* list_add: the item is linked in at the front.
list_addhead(item, list) == << item >> \o list

list_addtail(item, list) == Append(list, item)

\* list_del that leaves the entry linked.
list_del_kept(item, list) == list

list_del(item, list) == SelectSeq(list, LAMBDA x : x # item)

\* LIST_ENTRY(.., list.next, head): the first entry of a non-empty list.
LIST_FIRST(list) == Head(list)

Range(s) == { s[i] : i \in 1 .. Len(s) }

\* ------------------------------------------------------- vkr_context.h

\* vkr_context_add_object: the object is entered under its id.
vkr_context_add_object(objs, id, type) == [objs EXCEPT ![id] = type]

\* vkr_context_remove_object: the id names no object any more.
vkr_context_remove_object(objs, id) == [objs EXCEPT ![id] = NoObject]

\* ------------------------------------------------------- threads.h

mtx_free(m) == m = NoThread

\* A cnd_signal that wakes nobody.
cnd_signal_lost(q) == wpc

\* cnd_signal wakes the worker if it is blocked in cnd_wait, else does nothing.
cnd_signal(q) == [wpc EXCEPT ![q] = IF @ = "cnd_wait" THEN "woken" ELSE @]

\* ------------------------------------------------------- construction

NoFrame == [op |-> "none", queue |-> NULL, flags |-> 0, ring_idx |-> 0,
            fence_id |-> 0, sync |-> 0, ret |-> FALSE, pool_miss |-> FALSE,
            cursor |-> 0, timeline |-> FALSE, id |-> 0]

\* The state once vkr_queue_create (lines 192-241) has run for the queues in
\* `created`: id 0, empty pending list, join clear, worker thread started.
InitWith(created) ==
  /\ syncs = << >>
  /\ free_syncs = << >>
  /\ free_sync_mutex = NoThread
  /\ alive = [q \in Queues |-> q \in created]
  /\ pending_syncs = [q \in Queues |-> << >>]
  /\ mutex = [q \in Queues |-> NoThread]
  /\ join = [q \in Queues |-> FALSE]
  /\ ring_idx = [q \in Queues |-> 0]
  /\ base_id = [q \in Queues |-> 0]
  /\ sync_queues = [k \in 0 .. RingTableSize - 1 |-> NULL]
  /\ object_table = [id \in 1 .. MaxObjectId |-> NoObject]
  /\ fatal = FALSE
  /\ wpc = [q \in Queues |-> IF q \in created THEN "start" ELSE "gone"]
  /\ wsync = [q \in Queues |-> 0]
  /\ wresult = [q \in Queues |-> "none"]
  /\ cpc = "idle"
  /\ frame = NoFrame
  /\ calls = << >>
  /\ appended = [q \in Queues |-> << >>]
  /\ retired = [q \in Queues |-> << >>]
  /\ waited = {}
  /\ overlap = FALSE

\* A device with one queue.
Init == InitWith({"A"})

\* A device with two queues sharing the pool.
InitTwo == InitWith(Queues)

\* ------------------------------------------------------- the driver

\* vk->CreateFence either succeeds or fails; malloc either succeeds or not.
CreateOutcomes == {VK_SUCCESS, VK_ERROR_OUT_OF_HOST_MEMORY, "malloc_null"}

\* vk->QueueSubmit with a fence and no command buffers.
SubmitResults == {VK_SUCCESS, VK_ERROR_DEVICE_LOST, VK_ERROR_OUT_OF_HOST_MEMORY}

\* vk->WaitForFences on one fence with a timeout: success once the fence is
\* signalled, timeout while it is not, or the driver's device-lost error.
WaitResults(fence) ==
  (IF fence = "signaled" THEN {VK_SUCCESS} ELSE {VK_TIMEOUT}) \cup {VK_ERROR_DEVICE_LOST}

\* The driver completes a submitted fence; fences complete in any order.
DriverSignal(s) ==
  /\ s \in 1 .. Len(syncs)
  /\ syncs[s].fence = "pending"
  /\ syncs' = [syncs EXCEPT ![s].fence = "signaled"]
  /\ UNCHANGED << free_syncs, free_sync_mutex, alive, pending_syncs, mutex, join,
                  ringvars, workervars, cpc, frame, histvars >>

\* --------------------------------------- vkr_device_alloc_queue_sync

\* The pool treated as empty whatever it holds.
PoolAlwaysMiss(list) == TRUE

\* Line 24: the pool has no free object.
PoolMiss(list) == LIST_IS_EMPTY(list)

\* Lines 54-57 without the store to ring_idx.
SyncPopulateNoRing(sync, fence_flags, ring, fence_id) ==
  [sync EXCEPT !.device_lost = FALSE, !.flags = fence_flags, !.fence_id = fence_id]

\* Lines 54-57 without the store to device_lost.
SyncPopulateKeepLost(sync, fence_flags, ring, fence_id) ==
  [sync EXCEPT !.flags = fence_flags, !.ring_idx = ring, !.fence_id = fence_id]

\* Lines 54-57: the fields written after acquisition, on either path.
SyncPopulate(sync, fence_flags, ring, fence_id) ==
  [sync EXCEPT !.device_lost = FALSE, !.flags = fence_flags,
               !.ring_idx = ring, !.fence_id = fence_id]

\* A malloc'ed vkr_queue_sync whose fence CreateFence has just made.
NewSync == [fence |-> "unsignaled", device_lost |-> FALSE, flags |-> 0,
            ring_idx |-> 0, fence_id |-> 0]

\* vkr_queue_sync_submit is entered; fence ids are handed out in call order.
SubmitCall(q, flags, ring) ==
  /\ cpc = "idle"
  /\ alive[q]
  /\ frame' = [NoFrame EXCEPT !.op = "submit", !.queue = q, !.flags = flags,
                              !.ring_idx = ring, !.fence_id = Len(calls) + 1]
  /\ calls' = Append(calls, [queue |-> q, flags |-> flags, ring_idx |-> ring,
                             result |-> "none"])
  /\ overlap' = (overlap \/ \E s \in 1 .. Len(syncs) : s \notin Range(free_syncs))
  /\ cpc' = "alloc_lock"
  /\ UNCHANGED << devvars, alive, pending_syncs, mutex, join, ringvars,
                  workervars, appended, retired, waited >>

\* Line 23: mtx_lock(&dev->free_sync_mutex).
AllocLock ==
  /\ cpc = "alloc_lock"
  /\ mtx_free(free_sync_mutex)
  /\ free_sync_mutex' = CtxThread
  /\ cpc' = "alloc_check"
  /\ UNCHANGED << syncs, free_syncs, alive, pending_syncs, mutex, join, ringvars,
                  workervars, frame, histvars >>

\* Lines 46-51 with the unlock moved below ResetFences: the recycled object
\* is reset with the pool still locked.
AllocCheckResetLocked ==
  /\ cpc = "alloc_check"
  /\ IF PoolMiss(free_syncs)
     THEN /\ frame' = [frame EXCEPT !.pool_miss = LIST_IS_EMPTY(free_syncs)]
          /\ cpc' = "create"
          /\ free_sync_mutex' = NoThread
          /\ UNCHANGED free_syncs
     ELSE /\ frame' = [frame EXCEPT !.sync = LIST_FIRST(free_syncs)]
          /\ free_syncs' = list_del(LIST_FIRST(free_syncs), free_syncs)
          /\ cpc' = "reset"
          /\ UNCHANGED free_sync_mutex
  /\ UNCHANGED << syncs, alive, pending_syncs, mutex, join, ringvars, workervars,
                  histvars >>

\* Lines 24-25 and 46-49: test the free list under the lock, pop its first
\* entry if there is one, unlock.
AllocCheck ==
  /\ cpc = "alloc_check"
  /\ IF PoolMiss(free_syncs)
     THEN /\ frame' = [frame EXCEPT !.pool_miss = LIST_IS_EMPTY(free_syncs)]
          /\ cpc' = "create"
          /\ UNCHANGED free_syncs
     ELSE /\ frame' = [frame EXCEPT !.sync = LIST_FIRST(free_syncs)]
          /\ free_syncs' = list_del(LIST_FIRST(free_syncs), free_syncs)
          /\ cpc' = "reset"
  /\ free_sync_mutex' = NoThread
  /\ UNCHANGED << syncs, alive, pending_syncs, mutex, join, ringvars, workervars,
                  histvars >>

\* Lines 27-45 and 54-59: malloc and CreateFence outside the lock; a failure
\* of either returns NULL, and vkr_queue_sync_submit returns false (line 89).
AllocCreate(outcome) ==
  /\ cpc = "create"
  /\ IF outcome = VK_SUCCESS
     THEN /\ syncs' = Append(syncs, SyncPopulate(NewSync, frame.flags,
                                                 frame.ring_idx, frame.fence_id))
          /\ frame' = [frame EXCEPT !.sync = Len(syncs) + 1]
          /\ cpc' = "submit"
     ELSE /\ frame' = [frame EXCEPT !.ret = FALSE]
          /\ cpc' = "idle"
          /\ UNCHANGED syncs
  /\ UNCHANGED << free_syncs, free_sync_mutex, alive, pending_syncs, mutex, join,
                  ringvars, workervars, histvars >>

\* Lines 51-59: ResetFences on the recycled object outside the lock.
AllocReset ==
  /\ cpc = "reset"
  /\ syncs' = [syncs EXCEPT ![frame.sync] =
                 SyncPopulate([@ EXCEPT !.fence = "unsignaled"], frame.flags,
                              frame.ring_idx, frame.fence_id)]
  /\ cpc' = "submit"
  /\ UNCHANGED << free_syncs, free_sync_mutex, alive, pending_syncs, mutex, join,
                  ringvars, workervars, frame, histvars >>

\* --------------------------------------------- vkr_queue_sync_submit

\* Lines 92-99 with every result but device-lost taken for success.
SubmitOutcomeLax(result) ==
  IF result = VK_ERROR_DEVICE_LOST THEN "lost" ELSE "ok"

\* Lines 92-99: what the submit does with the driver's result.
SubmitOutcome(result) ==
  IF result = VK_ERROR_DEVICE_LOST THEN "lost"
  ELSE IF result # VK_SUCCESS THEN "fail"
  ELSE "ok"

\* Lines 91-99: the fence-only QueueSubmit and the branch on its result.
QueueSubmit(result) ==
  /\ cpc = "submit"
  /\ calls' = [calls EXCEPT ![frame.fence_id].result = result]
  /\ syncs' = [syncs EXCEPT ![frame.sync] =
                 [@ EXCEPT !.fence = IF result = VK_SUCCESS THEN "pending" ELSE @,
                           !.device_lost = IF SubmitOutcome(result) = "lost"
                                           THEN TRUE ELSE @]]
  /\ cpc' = IF SubmitOutcome(result) = "fail" THEN "release_lock" ELSE "enqueue_lock"
  /\ UNCHANGED << free_syncs, free_sync_mutex, alive, pending_syncs, mutex, join,
                  ringvars, workervars, frame, appended, retired, waited, overlap >>

\* Line 96 (vkr_device_free_queue_sync, line 65): lock the pool.
ReleaseLock ==
  /\ cpc = "release_lock"
  /\ mtx_free(free_sync_mutex)
  /\ free_sync_mutex' = CtxThread
  /\ cpc' = "release"
  /\ UNCHANGED << syncs, free_syncs, alive, pending_syncs, mutex, join, ringvars,
                  workervars, frame, histvars >>

\* Lines 96-98 without the list_addtail.
ReleaseLeak ==
  /\ cpc = "release"
  /\ free_sync_mutex' = NoThread
  /\ frame' = [frame EXCEPT !.ret = FALSE]
  /\ cpc' = "idle"
  /\ UNCHANGED << syncs, free_syncs, alive, pending_syncs, mutex, join, ringvars,
                  workervars, histvars >>

\* Lines 66-67 and 98: put the object back, unlock, return false.
Release ==
  /\ cpc = "release"
  /\ free_syncs' = list_addtail(frame.sync, free_syncs)
  /\ free_sync_mutex' = NoThread
  /\ frame' = [frame EXCEPT !.ret = FALSE]
  /\ cpc' = "idle"
  /\ UNCHANGED << syncs, alive, pending_syncs, mutex, join, ringvars, workervars,
                  histvars >>

\* Line 101: mtx_lock(&queue->mutex).
EnqueueLock ==
  /\ cpc = "enqueue_lock"
  /\ mtx_free(mutex[frame.queue])
  /\ mutex' = [mutex EXCEPT ![frame.queue] = CtxThread]
  /\ cpc' = "enqueue"
  /\ UNCHANGED << devvars, alive, pending_syncs, join, ringvars, workervars,
                  frame, histvars >>

\* Lines 102-103: append to the pending list, unlock.
Enqueue ==
  /\ cpc = "enqueue"
  /\ pending_syncs' = [pending_syncs EXCEPT ![frame.queue] =
                         list_addtail(frame.sync, @)]
  /\ appended' = [appended EXCEPT ![frame.queue] = Append(@, frame.fence_id)]
  /\ mutex' = [mutex EXCEPT ![frame.queue] = NoThread]
  /\ cpc' = "signal"
  /\ UNCHANGED << devvars, alive, join, ringvars, workervars, frame, calls,
                  retired, waited, overlap >>

\* Lines 104-106: cnd_signal, return true.
EnqueueSignal ==
  /\ cpc = "signal"
  /\ wpc' = cnd_signal(frame.queue)
  /\ frame' = [frame EXCEPT !.ret = TRUE]
  /\ cpc' = "idle"
  /\ UNCHANGED << devvars, alive, pending_syncs, mutex, join, ringvars, wsync,
                  wresult, histvars >>

\* ------------------------------------------------- vkr_queue_sync_retire

\* Line 73: the arguments handed to ctx->retire_fence.
RetireArgs(sync) == [ring_idx |-> sync.ring_idx, fence_id |-> sync.fence_id]

\* ------------------------------------------------------ vkr_queue_thread

\* The worker observing the newest pending object.
WorkerPickLast(list) == list[Len(list)]

\* Lines 165-166: the object the worker observes next.
WorkerPick(list) == LIST_FIRST(list)

\* Line 171 without the device_lost test.
WaitNeverSkipped(sync) == FALSE

\* Line 171: the driver wait is skipped for this object.
WaitSkipped(sync) == sync.device_lost

\* Line 180 testing for any result but success.
WaitRetriedUnlessSuccess(result) == result # VK_SUCCESS

\* Line 180: the result that sends the worker round the loop again.
WaitRetried(result) == result = VK_TIMEOUT

\* Line 162 with a test of the pending list added.
WorkerBreaksWhenEmpty(q) == join[q] /\ LIST_IS_EMPTY(pending_syncs[q])

\* Line 162: the worker leaves its loop.
WorkerBreaks(q) == join[q]

\* Line 157: the thread's first mtx_lock.
WorkerStart(q) ==
  /\ alive[q]
  /\ wpc[q] = "start"
  /\ mtx_free(mutex[q])
  /\ mutex' = [mutex EXCEPT ![q] = q]
  /\ wpc' = [wpc EXCEPT ![q] = "loop"]
  /\ UNCHANGED << devvars, alive, pending_syncs, join, ringvars, wsync, wresult,
                  cpc, frame, histvars >>

\* Lines 159-168 without the mtx_unlock of line 168: the worker goes to its
\* wait with the queue mutex held.
WorkerLoopKeepsLock(q) ==
  /\ wpc[q] = "loop"
  /\ mutex[q] = q
  /\ IF LIST_IS_EMPTY(pending_syncs[q]) /\ ~join[q]
     THEN /\ wpc' = [wpc EXCEPT ![q] = "cnd_wait"]
          /\ mutex' = [mutex EXCEPT ![q] = NoThread]
          /\ UNCHANGED wsync
     ELSE IF WorkerBreaks(q)
     THEN /\ wpc' = [wpc EXCEPT ![q] = "done"]
          /\ mutex' = [mutex EXCEPT ![q] = NoThread]
          /\ UNCHANGED wsync
     ELSE /\ wsync' = [wsync EXCEPT ![q] = WorkerPick(pending_syncs[q])]
          /\ wpc' = [wpc EXCEPT ![q] = "wait"]
          /\ UNCHANGED mutex
  /\ UNCHANGED << devvars, alive, pending_syncs, join, ringvars, wresult, cpc,
                  frame, histvars >>

\* Lines 159-168 and 187-189, entered holding the queue mutex: block in
\* cnd_wait (which releases the mutex), or break, unlock and return, or take
\* the first pending object and unlock.
WorkerLoop(q) ==
  /\ wpc[q] = "loop"
  /\ mutex[q] = q
  /\ IF LIST_IS_EMPTY(pending_syncs[q]) /\ ~join[q]
     THEN /\ wpc' = [wpc EXCEPT ![q] = "cnd_wait"]
          /\ UNCHANGED wsync
     ELSE IF WorkerBreaks(q)
     THEN /\ wpc' = [wpc EXCEPT ![q] = "done"]
          /\ UNCHANGED wsync
     ELSE /\ wsync' = [wsync EXCEPT ![q] = WorkerPick(pending_syncs[q])]
          /\ wpc' = [wpc EXCEPT ![q] = "wait"]
  /\ mutex' = [mutex EXCEPT ![q] = NoThread]
  /\ UNCHANGED << devvars, alive, pending_syncs, join, ringvars, wresult, cpc,
                  frame, histvars >>

\* cnd_wait may return without a signal.
WorkerSpuriousWake(q) ==
  /\ wpc[q] = "cnd_wait"
  /\ wpc' = [wpc EXCEPT ![q] = "woken"]
  /\ UNCHANGED << devvars, alive, pending_syncs, mutex, join, ringvars, wsync,
                  wresult, cpc, frame, histvars >>

\* Line 160: cnd_wait re-acquires the mutex before it returns.
WorkerWake(q) ==
  /\ wpc[q] = "woken"
  /\ mtx_free(mutex[q])
  /\ mutex' = [mutex EXCEPT ![q] = q]
  /\ wpc' = [wpc EXCEPT ![q] = "loop"]
  /\ UNCHANGED << devvars, alive, pending_syncs, join, ringvars, wsync, wresult,
                  cpc, frame, histvars >>

\* Lines 170-176, with no lock held: device_lost stands for the result, else
\* the bounded WaitForFences is called.
WorkerWait(q) ==
  /\ wpc[q] = "wait"
  /\ IF WaitSkipped(syncs[wsync[q]])
     THEN /\ wresult' = [wresult EXCEPT ![q] = VK_ERROR_DEVICE_LOST]
          /\ UNCHANGED waited
     ELSE /\ \E result \in WaitResults(syncs[wsync[q]].fence) :
               wresult' = [wresult EXCEPT ![q] = result]
          /\ waited' = waited \cup {syncs[wsync[q]].fence_id}
  /\ wpc' = [wpc EXCEPT ![q] = "relock"]
  /\ UNCHANGED << devvars, alive, pending_syncs, mutex, join, ringvars, wsync,
                  cpc, frame, calls, appended, retired, overlap >>

\* Lines 178-185 up to the callback: lock; on a timeout go round again, else
\* unlink the object and call ctx->retire_fence (line 73).
WorkerProcess(q) ==
  /\ wpc[q] = "relock"
  /\ mtx_free(mutex[q])
  /\ mutex' = [mutex EXCEPT ![q] = q]
  /\ IF WaitRetried(wresult[q])
     THEN /\ wpc' = [wpc EXCEPT ![q] = "loop"]
          /\ wsync' = [wsync EXCEPT ![q] = 0]
          /\ UNCHANGED << pending_syncs, retired >>
     ELSE /\ pending_syncs' = [pending_syncs EXCEPT ![q] = list_del(wsync[q], @)]
          /\ retired' = [retired EXCEPT ![q] = Append(@, RetireArgs(syncs[wsync[q]]))]
          /\ wpc' = [wpc EXCEPT ![q] = "free_lock"]
          /\ UNCHANGED wsync
  /\ wresult' = [wresult EXCEPT ![q] = "none"]
  /\ UNCHANGED << devvars, alive, join, ringvars, cpc, frame, calls, appended,
                  waited, overlap >>

\* Line 74 (vkr_device_free_queue_sync, line 65), still holding the queue
\* mutex: lock the pool.
WorkerFreeLock(q) ==
  /\ wpc[q] = "free_lock"
  /\ mtx_free(free_sync_mutex)
  /\ free_sync_mutex' = q
  /\ wpc' = [wpc EXCEPT ![q] = "free"]
  /\ UNCHANGED << syncs, free_syncs, alive, pending_syncs, mutex, join, ringvars,
                  wsync, wresult, cpc, frame, histvars >>

\* Lines 66-67: append to the free list, unlock the pool, back to the loop.
WorkerFree(q) ==
  /\ wpc[q] = "free"
  /\ free_syncs' = list_addtail(wsync[q], free_syncs)
  /\ free_sync_mutex' = NoThread
  /\ wsync' = [wsync EXCEPT ![q] = 0]
  /\ wpc' = [wpc EXCEPT ![q] = "loop"]
  /\ UNCHANGED << syncs, alive, pending_syncs, mutex, join, ringvars, wresult,
                  cpc, frame, histvars >>

\* ------------------------------- vkr_queue_destroy / retire_all_syncs

\* vkr_queue_destroy is entered.  Line 127 is a comment: the code tests
\* neither the fences nor the device, so the call is made in any state.
DestroyCall(q) ==
  /\ cpc = "idle"
  /\ alive[q]
  /\ frame' = [NoFrame EXCEPT !.op = "destroy", !.queue = q]
  /\ cpc' = "join_lock"
  /\ UNCHANGED << devvars, alive, pending_syncs, mutex, join, ringvars,
                  workervars, histvars >>

\* Line 112: mtx_lock(&queue->mutex).
JoinLock ==
  /\ cpc = "join_lock"
  /\ mtx_free(mutex[frame.queue])
  /\ mutex' = [mutex EXCEPT ![frame.queue] = CtxThread]
  /\ cpc' = "join_set"
  /\ UNCHANGED << devvars, alive, pending_syncs, join, ringvars, workervars,
                  frame, histvars >>

\* Lines 113-114: set join, unlock.
JoinSet ==
  /\ cpc = "join_set"
  /\ join' = [join EXCEPT ![frame.queue] = TRUE]
  /\ mutex' = [mutex EXCEPT ![frame.queue] = NoThread]
  /\ cpc' = "join_signal"
  /\ UNCHANGED << devvars, alive, pending_syncs, ringvars, workervars, frame,
                  histvars >>

\* Line 116: cnd_signal.
JoinSignal ==
  /\ cpc = "join_signal"
  /\ wpc' = cnd_signal(frame.queue)
  /\ cpc' = "thrd_join"
  /\ UNCHANGED << devvars, alive, pending_syncs, mutex, join, ringvars, wsync,
                  wresult, frame, histvars >>

\* Line 117 not waiting for the thread.
ThreadJoinDetached ==
  /\ cpc = "thrd_join"
  /\ frame' = [frame EXCEPT !.cursor = 1]
  /\ cpc' = "drain"
  /\ UNCHANGED << devvars, alive, pending_syncs, mutex, join, ringvars,
                  workervars, histvars >>

\* Line 117: thrd_join returns once the worker has returned.
ThreadJoin ==
  /\ cpc = "thrd_join"
  /\ wpc[frame.queue] = "done"
  /\ frame' = [frame EXCEPT !.cursor = 1]
  /\ cpc' = "drain"
  /\ UNCHANGED << devvars, alive, pending_syncs, mutex, join, ringvars,
                  workervars, histvars >>

\* Lines 120-121 and 73: the next entry of the pending list, if any, is
\* handed to ctx->retire_fence.  The list is walked, not unlinked.
DrainRetire ==
  /\ cpc = "drain"
  /\ frame.cursor <= Len(pending_syncs[frame.queue])
  /\ LET s == pending_syncs[frame.queue][frame.cursor] IN
       /\ retired' = [retired EXCEPT ![frame.queue] = Append(@, RetireArgs(syncs[s]))]
       /\ frame' = [frame EXCEPT !.sync = s]
  /\ cpc' = "drain_lock"
  /\ UNCHANGED << devvars, alive, pending_syncs, mutex, join, ringvars,
                  workervars, calls, appended, waited, overlap >>

\* Line 74 (line 65): lock the pool.
DrainLock ==
  /\ cpc = "drain_lock"
  /\ mtx_free(free_sync_mutex)
  /\ free_sync_mutex' = CtxThread
  /\ cpc' = "drain_free"
  /\ UNCHANGED << syncs, free_syncs, alive, pending_syncs, mutex, join, ringvars,
                  workervars, frame, histvars >>

\* The drain without the list_addtail of line 66.
DrainFreeLeak ==
  /\ cpc = "drain_free"
  /\ free_sync_mutex' = NoThread
  /\ frame' = [frame EXCEPT !.cursor = @ + 1, !.sync = 0]
  /\ cpc' = "drain"
  /\ UNCHANGED << syncs, free_syncs, alive, pending_syncs, mutex, join, ringvars,
                  workervars, histvars >>

\* Lines 66-67: list_addtail links the object into the free list; the walk
\* goes on to the entry it saved as next.
DrainFree ==
  /\ cpc = "drain_free"
  /\ free_syncs' = list_addtail(frame.sync, free_syncs)
  /\ free_sync_mutex' = NoThread
  /\ frame' = [frame EXCEPT !.cursor = @ + 1, !.sync = 0]
  /\ cpc' = "drain"
  /\ UNCHANGED << syncs, alive, pending_syncs, mutex, join, ringvars, workervars,
                  histvars >>

\* Lines 130-141, once the walk is over: the primitives are destroyed, the
\* queue leaves dev->queues, its ring slot is cleared if it has a ring index,
\* its id is removed from the context, and the queue is freed.
DestroyFinish ==
  /\ cpc = "drain"
  /\ frame.cursor > Len(pending_syncs[frame.queue])
  /\ LET q == frame.queue IN
       /\ alive' = [alive EXCEPT ![q] = FALSE]
       /\ sync_queues' = IF ring_idx[q] > 0
                         THEN [sync_queues EXCEPT ![ring_idx[q]] = NULL]
                         ELSE sync_queues
       /\ object_table' = IF base_id[q] # 0
                          THEN vkr_context_remove_object(object_table, base_id[q])
                          ELSE object_table
       /\ pending_syncs' = [pending_syncs EXCEPT ![q] = << >>]
       /\ join' = [join EXCEPT ![q] = FALSE]
       /\ ring_idx' = [ring_idx EXCEPT ![q] = 0]
       /\ base_id' = [base_id EXCEPT ![q] = 0]
       /\ wpc' = [wpc EXCEPT ![q] = "gone"]
  /\ frame' = [frame EXCEPT !.ret = TRUE, !.cursor = 0]
  /\ cpc' = "idle"
  /\ UNCHANGED << devvars, mutex, fatal, wsync, wresult, histvars >>

\* ----------------------------------------------- vkGetDeviceQueue*

\* vkr_device_lookup_queue (lines 261-275): the queue on dev->queues with the
\* given flags/family/index, or NULL.
vkr_device_lookup_queue(key) ==
  IF key \in Queues /\ alive[key] THEN key ELSE NULL

\* vkr_context_validate_object_id: the id is non-zero and names no object of
\* the context yet.
vkr_context_validate_object_id(id) ==
  id \in DOMAIN object_table /\ object_table[id] = NoObject

\* Lines 316-317 without the test for the reserved index 0.
RingInvalidHighOnly(ringIdx) == ringIdx >= RingTableSize

\* Lines 316-317: the ring index of the timeline info is not a slot of the table.
RingInvalid(ringIdx) == ringIdx = 0 \/ ringIdx >= RingTableSize

\* Line 323 without the test of the slot.
RingNeverClaimed(ringIdx) == FALSE

\* Line 323: the slot is taken.
RingClaimed(ringIdx) == sync_queues[ringIdx] # NULL

\* Lines 248-252 without the early return: the id is stored again.
vkr_queue_assign_object_id_again(q, id, bid, objs, fat) ==
  /\ base_id' = [bid EXCEPT ![q] = id]
  /\ object_table' = vkr_context_add_object(objs, id, "queue")
  /\ fatal' = fat

\* vkr_queue_assign_object_id (lines 243-259) as the new values of
\* queue->base.id, the context's objects and the fatal flag.  Whether a failed
\* validation raises the fatal flag is the context's business: both are allowed.
vkr_queue_assign_object_id(q, id, bid, objs, fat) ==
  IF bid[q] # 0
  THEN /\ base_id' = bid
       /\ object_table' = objs
       /\ fatal' = (fat \/ bid[q] # id)
  ELSE IF ~vkr_context_validate_object_id(id)
  THEN /\ base_id' = bid
       /\ object_table' = objs
       /\ fatal' \in {fat, TRUE}
  ELSE /\ base_id' = [bid EXCEPT ![q] = id]
       /\ object_table' = vkr_context_add_object(objs, id, "queue")
       /\ fatal' = fat

\* The decoder hands the next command to its handler; a stream marked fatal
\* is not decoded any further.
DispatchGetDeviceQueue(key, id) ==
  /\ cpc = "idle"
  /\ ~fatal
  /\ frame' = [NoFrame EXCEPT !.op = "vkGetDeviceQueue", !.queue = key, !.id = id]
  /\ cpc' = "vkGetDeviceQueue"
  /\ UNCHANGED << devvars, alive, pending_syncs, mutex, join, ringvars,
                  workervars, histvars >>

DispatchGetDeviceQueue2(key, timeline, ringIdx, id) ==
  /\ cpc = "idle"
  /\ ~fatal
  /\ frame' = [NoFrame EXCEPT !.op = "vkGetDeviceQueue2", !.queue = key,
                              !.timeline = timeline, !.ring_idx = ringIdx,
                              !.id = id]
  /\ cpc' = "vkGetDeviceQueue2"
  /\ UNCHANGED << devvars, alive, pending_syncs, mutex, join, ringvars,
                  workervars, histvars >>

\* vkr_dispatch_vkGetDeviceQueue (lines 277-295).
vkGetDeviceQueue ==
  /\ cpc = "vkGetDeviceQueue"
  /\ LET queue == vkr_device_lookup_queue(frame.queue) IN
       IF queue = NULL
       THEN /\ fatal' = TRUE
            /\ UNCHANGED << base_id, object_table >>
       ELSE vkr_queue_assign_object_id(queue, frame.id, base_id, object_table, fatal)
  /\ frame' = [frame EXCEPT !.ret = TRUE]
  /\ cpc' = "idle"
  /\ UNCHANGED << devvars, alive, pending_syncs, mutex, join, ring_idx,
                  sync_queues, workervars, histvars >>

\* vkr_dispatch_vkGetDeviceQueue2 (lines 297-336).
vkGetDeviceQueue2 ==
  /\ cpc = "vkGetDeviceQueue2"
  /\ LET queue == vkr_device_lookup_queue(frame.queue) IN
       IF queue = NULL
       THEN /\ fatal' = TRUE
            /\ UNCHANGED << ring_idx, sync_queues, base_id, object_table >>
       ELSE IF frame.timeline /\ RingInvalid(frame.ring_idx)
       THEN /\ fatal' = TRUE
            /\ UNCHANGED << ring_idx, sync_queues, base_id, object_table >>
       ELSE IF frame.timeline /\ RingClaimed(frame.ring_idx)
       THEN /\ fatal' = TRUE
            /\ UNCHANGED << ring_idx, sync_queues, base_id, object_table >>
       ELSE /\ IF frame.timeline
               THEN /\ ring_idx' = [ring_idx EXCEPT ![queue] = frame.ring_idx]
                    /\ sync_queues' = [sync_queues EXCEPT ![frame.ring_idx] = queue]
               ELSE UNCHANGED << ring_idx, sync_queues >>
            /\ vkr_queue_assign_object_id(queue, frame.id, base_id, object_table, fatal)
  /\ frame' = [frame EXCEPT !.ret = TRUE]
  /\ cpc' = "idle"
  /\ UNCHANGED << devvars, alive, pending_syncs, mutex, join, workervars,
                  histvars >>

\* ------------------------------- the handlers that can end the stream

\* The commands of vkr_context_init_queue/fence/semaphore_dispatch (lines
\* 615-661) whose handlers call vkr_cs_decoder_set_fatal.
FatalCommands ==
  {"vkQueueWaitIdle", "vkWaitForFences", "vkResetFenceResource100000MESA",
   "vkWaitSemaphores", "vkWaitSemaphoreResource100000MESA",
   "vkImportSemaphoreResource100000MESA"}

\* What the driver call made by such a handler can return.
ForwardResults == {VK_SUCCESS, VK_TIMEOUT, VK_ERROR_DEVICE_LOST}

\* The commands whose handlers only forward to the driver and store its
\* result in args->ret (lines 338-360, 371-381, 397-417, 476-485, 502-511,
\* 582-613): no state of the context, the device or a queue is touched.
PassThroughCommands ==
  {"vkQueueSubmit", "vkQueueBindSparse", "vkQueueSubmit2", "vkResetFences",
   "vkGetFenceStatus", "vkGetSemaphoreCounterValue", "vkSignalSemaphore",
   "vkGetEventStatus", "vkSetEvent", "vkResetEvent"}

\* The commands that create an object of the context, with the type created.
CreateCommands ==
  [vkCreateFence |-> "fence", vkCreateSemaphore |-> "semaphore",
   vkCreateEvent |-> "event"]

\* The commands that destroy an object of the context, with the type named.
DestroyCommands ==
  [vkDestroyFence |-> "fence", vkDestroySemaphore |-> "semaphore",
   vkDestroyEvent |-> "event"]

\* What the driver's vkCreate* can return.
CreateResults == {VK_SUCCESS, VK_ERROR_OUT_OF_HOST_MEMORY}

\* The decoder hands one of these commands to its handler.
DispatchForwarded(op) ==
  /\ cpc = "idle"
  /\ ~fatal
  /\ frame' = [NoFrame EXCEPT !.op = op]
  /\ cpc' = op
  /\ UNCHANGED << devvars, alive, pending_syncs, mutex, join, ringvars,
                  workervars, histvars >>

\* The handler of command op returns, having set the fatal flag or not;
\* nothing of the call outlives it.
ForwardedReturn(op, setFatal) ==
  /\ cpc = op
  /\ fatal' = (fatal \/ setFatal)
  /\ frame' = NoFrame
  /\ cpc' = "idle"
  /\ UNCHANGED << devvars, alive, pending_syncs, mutex, join, ring_idx, base_id,
                  sync_queues, object_table, workervars, histvars >>

\* vkr_dispatch_vkQueueWaitIdle (lines 362-369): no blocking call is made,
\* the stream is ended.
vkQueueWaitIdle == ForwardedReturn("vkQueueWaitIdle", TRUE)

\* vkr_dispatch_vkWaitForFences (lines 419-433): fatal on device-lost.
vkWaitForFences(result) ==
  ForwardedReturn("vkWaitForFences", result = VK_ERROR_DEVICE_LOST)

\* vkr_dispatch_vkResetFenceResource100000MESA (lines 435-460): fatal when
\* GetFenceFdKHR fails.
vkResetFenceResource100000MESA(result) ==
  ForwardedReturn("vkResetFenceResource100000MESA", result # VK_SUCCESS)

\* vkr_dispatch_vkWaitSemaphores (lines 487-500): fatal on device-lost.
vkWaitSemaphores(result) ==
  ForwardedReturn("vkWaitSemaphores", result = VK_ERROR_DEVICE_LOST)

\* vkr_dispatch_vkWaitSemaphoreResource100000MESA (lines 513-538): fatal when
\* GetSemaphoreFdKHR fails.
vkWaitSemaphoreResource100000MESA(result) ==
  ForwardedReturn("vkWaitSemaphoreResource100000MESA", result # VK_SUCCESS)

\* abort(), called by an assert that fails: the process ends, and every
\* thread of it where it stands.
abort ==
  /\ cpc' = "aborted"
  /\ wpc' = [q \in Queues |-> "aborted"]
  /\ UNCHANGED << devvars, alive, pending_syncs, mutex, join, ringvars, wsync,
                  wresult, frame, histvars >>

\* vkr_dispatch_vkImportSemaphoreResource100000MESA (lines 540-566).  The
\* assert of line 555 ends the process on a non-zero resourceId, unless the
\* build defines NDEBUG and compiles it out; past it, fatal when
\* ImportSemaphoreFdKHR fails.
vkImportSemaphoreResource100000MESA(resourceId, result) ==
  \/ /\ cpc = "vkImportSemaphoreResource100000MESA"
     /\ resourceId # 0
     /\ abort
  \/ ForwardedReturn("vkImportSemaphoreResource100000MESA", result # VK_SUCCESS)

\* The handlers of PassThroughCommands: the driver's result goes back to the
\* guest in args->ret and the handler returns.
PassThrough(op) ==
  /\ op \in PassThroughCommands
  /\ ForwardedReturn(op, FALSE)

\* The decoder turns the id of a vkCreate* into the new object's handle
\* argument and hands the command to its handler.
DispatchCreate(op, id) ==
  /\ cpc = "idle"
  /\ ~fatal
  /\ frame' = [NoFrame EXCEPT !.op = op, !.id = id]
  /\ cpc' = op
  /\ UNCHANGED << devvars, alive, pending_syncs, mutex, join, ringvars,
                  workervars, histvars >>

\* The decoder looks the handle of a vkDestroy* up by id and type: id 0 is
\* VK_NULL_HANDLE, an id that names no object of the type ends the stream and
\* the handler is not called.
DispatchDestroy(op, id) ==
  /\ cpc = "idle"
  /\ ~fatal
  /\ IF id = 0 \/ object_table[id] = DestroyCommands[op]
     THEN /\ frame' = [NoFrame EXCEPT !.op = op, !.id = id]
          /\ cpc' = op
          /\ fatal' = fatal
     ELSE /\ frame' = frame
          /\ cpc' = cpc
          /\ fatal' = TRUE
  /\ UNCHANGED << devvars, alive, pending_syncs, mutex, join, ring_idx, base_id,
                  sync_queues, object_table, workervars, histvars >>

\* vkr_<type>_create_and_add: the id is validated, the driver creates the
\* object, and on success the context registers it under the id.  Whether a
\* failed validation raises the fatal flag is the context's business.
create_and_add(op, result) ==
  /\ cpc = op
  /\ IF ~vkr_context_validate_object_id(frame.id)
     THEN /\ object_table' = object_table
          /\ fatal' \in {fatal, TRUE}
     ELSE IF result # VK_SUCCESS
     THEN /\ object_table' = object_table
          /\ fatal' = fatal
     ELSE /\ object_table' = vkr_context_add_object(object_table, frame.id,
                                                    CreateCommands[op])
          /\ fatal' = fatal
  /\ frame' = NoFrame
  /\ cpc' = "idle"
  /\ UNCHANGED << devvars, alive, pending_syncs, mutex, join, ring_idx, base_id,
                  sync_queues, workervars, histvars >>

\* vkr_<type>_destroy_and_remove: nothing for VK_NULL_HANDLE; else the driver
\* destroys the object and the context drops its id.
destroy_and_remove(op) ==
  /\ cpc = op
  /\ object_table' = IF frame.id = 0 THEN object_table
                     ELSE vkr_context_remove_object(object_table, frame.id)
  /\ frame' = NoFrame
  /\ cpc' = "idle"
  /\ UNCHANGED << devvars, alive, pending_syncs, mutex, join, ring_idx, base_id,
                  sync_queues, fatal, workervars, histvars >>

\* vkr_dispatch_vkCreateFence (lines 383-388).
vkCreateFence(result) == create_and_add("vkCreateFence", result)

\* vkr_dispatch_vkDestroyFence (lines 390-395).
vkDestroyFence == destroy_and_remove("vkDestroyFence")

\* vkr_dispatch_vkCreateSemaphore (lines 462-467).
vkCreateSemaphore(result) == create_and_add("vkCreateSemaphore", result)

\* vkr_dispatch_vkDestroySemaphore (lines 469-474).
vkDestroySemaphore == destroy_and_remove("vkDestroySemaphore")

\* vkr_dispatch_vkCreateEvent (lines 568-573).
vkCreateEvent(result) == create_and_add("vkCreateEvent", result)

\* vkr_dispatch_vkDestroyEvent (lines 575-580).
vkDestroyEvent == destroy_and_remove("vkDestroyEvent")

\* ------------------------------------------------------- specification

Worker(q) ==
  \/ WorkerStart(q)
  \/ WorkerLoop(q)
  \/ WorkerSpuriousWake(q)
  \/ WorkerWake(q)
  \/ WorkerWait(q)
  \/ WorkerProcess(q)
  \/ WorkerFreeLock(q)
  \/ WorkerFree(q)

SubmitSteps ==
  \/ AllocLock
  \/ AllocCheck
  \/ \E outcome \in CreateOutcomes : AllocCreate(outcome)
  \/ AllocReset
  \/ \E result \in SubmitResults : QueueSubmit(result)
  \/ ReleaseLock
  \/ Release
  \/ EnqueueLock
  \/ Enqueue
  \/ EnqueueSignal

\* The dispatch thread calls vkr_queue_sync_submit at most `budget` times.
SubmitCalls(budget) ==
  /\ Len(calls) < budget
  /\ \E q \in Queues, flags \in FenceFlags, ring \in SubmitRings :
       SubmitCall(q, flags, ring)

Destroy ==
  \/ \E q \in Queues : DestroyCall(q)
  \/ JoinLock
  \/ JoinSet
  \/ JoinSignal
  \/ ThreadJoin
  \/ DrainRetire
  \/ DrainLock
  \/ DrainFree
  \/ DestroyFinish

Driver == \E s \in 1 .. Len(syncs) : DriverSignal(s)

GetDeviceQueue ==
  \/ \E key \in QueueKeys, id \in ObjectIds : DispatchGetDeviceQueue(key, id)
  \/ \E key \in QueueKeys, id \in ObjectIds :
       \/ DispatchGetDeviceQueue2(key, FALSE, 0, id)
       \/ \E ringIdx \in TimelineRings : DispatchGetDeviceQueue2(key, TRUE, ringIdx, id)
  \/ vkGetDeviceQueue
  \/ vkGetDeviceQueue2

Forwarded ==
  \/ \E op \in FatalCommands \cup PassThroughCommands : DispatchForwarded(op)
  \/ \E op \in PassThroughCommands : PassThrough(op)
  \/ vkQueueWaitIdle
  \/ \E result \in ForwardResults : vkWaitForFences(result)
  \/ \E result \in ForwardResults : vkResetFenceResource100000MESA(result)
  \/ \E result \in ForwardResults : vkWaitSemaphores(result)
  \/ \E result \in ForwardResults : vkWaitSemaphoreResource100000MESA(result)
  \/ \E resourceId \in ResourceIds, result \in ForwardResults :
       vkImportSemaphoreResource100000MESA(resourceId, result)

Objects ==
  \/ \E op \in DOMAIN CreateCommands, id \in ObjectIds : DispatchCreate(op, id)
  \/ \E op \in DOMAIN DestroyCommands, id \in ObjectIds : DispatchDestroy(op, id)
  \/ \E result \in CreateResults : vkCreateFence(result)
  \/ vkDestroyFence
  \/ \E result \in CreateResults : vkCreateSemaphore(result)
  \/ vkDestroySemaphore
  \/ \E result \in CreateResults : vkCreateEvent(result)
  \/ vkDestroyEvent

Next ==
  \/ SubmitCalls(MaxSubmits)
  \/ SubmitSteps
  \/ Destroy
  \/ \E q \in Queues : Worker(q)
  \/ Driver

\* One queue, its worker, the dispatch thread and the driver.
Spec == Init /\ [][Next]_vars

NextTwo ==
  \/ SubmitCalls(MaxSubmitsTwo)
  \/ SubmitSteps
  \/ Destroy
  \/ \E q \in Queues : Worker(q)
  \/ Driver

\* Two queues and their workers sharing the device's pool.
SpecTwo == InitTwo /\ [][NextTwo]_vars

\* The commands that never touch a pending list: vkGetDeviceQueue*, the
\* handlers that can end the stream, the teardown of a queue with nothing
\* pending, and the idle workers.
NextRing ==
  \/ GetDeviceQueue
  \/ Forwarded
  \/ Objects
  \/ \E q \in Queues : DestroyCall(q)
  \/ JoinLock
  \/ JoinSet
  \/ JoinSignal
  \/ ThreadJoin
  \/ DestroyFinish
  \/ \E q \in Queues : WorkerStart(q) \/ WorkerLoop(q) \/ WorkerSpuriousWake(q) \/ WorkerWake(q)

\* Two queues and the ring table, with no synchronisation submitted.
SpecRing == InitTwo /\ [][NextRing]_vars

\* The scheduler runs every thread that can take a step: the worker (a
\* cnd_wait that nothing signalled need never return), the dispatch thread
\* inside a call it has begun (it need not begin another), and the driver,
\* which completes every fence it was given.
WorkerRuns(q) ==
  \/ WorkerStart(q)
  \/ WorkerLoop(q)
  \/ WorkerWake(q)
  \/ WorkerWait(q)
  \/ WorkerProcess(q)
  \/ WorkerFreeLock(q)
  \/ WorkerFree(q)

DestroyRuns ==
  \/ JoinLock
  \/ JoinSet
  \/ JoinSignal
  \/ ThreadJoin
  \/ DrainRetire
  \/ DrainLock
  \/ DrainFree
  \/ DestroyFinish

\* mtx_lock as called by the dispatch thread and by the worker of q.
CtxLocks == AllocLock \/ ReleaseLock \/ EnqueueLock \/ JoinLock \/ DrainLock

WorkerLocks(q) ==
  WorkerStart(q) \/ WorkerWake(q) \/ WorkerProcess(q) \/ WorkerFreeLock(q)

\* Every thread that can run does; a thread blocked in mtx_lock gets the
\* lock if it is free again and again.
Fairness ==
  /\ \A q \in Queues : WF_vars(WorkerRuns(q))
  /\ \A q \in Queues : SF_vars(WorkerLocks(q))
  /\ WF_vars(SubmitSteps)
  /\ WF_vars(DestroyRuns)
  /\ SF_vars(CtxLocks)
  /\ \A s \in 1 .. MaxSubmitsFair : WF_vars(DriverSignal(s))

NextFair ==
  \/ SubmitCalls(MaxSubmitsFair)
  \/ SubmitSteps
  \/ Destroy
  \/ \E q \in Queues : Worker(q)
  \/ Driver

\* One queue under fair scheduling.
SpecFair == Init /\ [][NextFair]_vars /\ Fairness

\* ------------------------------------------------------- properties

IsPrefix(s, t) == Len(s) <= Len(t) /\ \A i \in 1 .. Len(s) : s[i] = t[i]

\* The tokens retire_fence was called with for queue q, in call order.
RetiredTokens(q) == [i \in 1 .. Len(retired[q]) |-> retired[q][i].fence_id]

\* The submit call with token t got an object onto a pending list.
Accepted(t) == calls[t].result \in {VK_SUCCESS, VK_ERROR_DEVICE_LOST}

\* Number of occurrences of x in the sequence s.
Count(x, s) == Cardinality({ i \in 1 .. Len(s) : s[i] = x })

SubmitReturned == cpc = "idle" /\ frame.op = "submit"
DestroyReturned == cpc = "idle" /\ frame.op = "destroy" /\ frame.ret = TRUE

\* C1: on every queue the tokens handed to the retire callback are, in order,
\* a prefix of the tokens appended by successful submits, whatever the order
\* in which the driver signalled the fences.
C1_RetireFifo == \A q \in Queues : IsPrefix(RetiredTokens(q), appended[q])

\* One token retired by the worker while the two behind it wait, the newer of
\* them signalled before the older.
C1_Witness ==
  /\ Len(retired["A"]) >= 1
  /\ ~join["A"]
  /\ Len(pending_syncs["A"]) = 2
  /\ syncs[pending_syncs["A"][1]].fence = "pending"
  /\ syncs[pending_syncs["A"][2]].fence = "signaled"

\* C2: no token is handed to the retire callback twice, only appended tokens
\* are retired, and once vkr_queue_destroy has returned every token appended
\* to the queue has been retired.
C2_RetireOnce ==
  /\ \A q1, q2 \in Queues :
       \A i \in 1 .. Len(retired[q1]), j \in 1 .. Len(retired[q2]) :
          retired[q1][i].fence_id = retired[q2][j].fence_id => q1 = q2 /\ i = j
  /\ \A q \in Queues :
       /\ \A i \in 1 .. Len(retired[q]) : Count(retired[q][i].fence_id, appended[q]) = 1
       /\ ~alive[q] => \A i \in 1 .. Len(appended[q]) :
                          Count(appended[q][i], RetiredTokens(q)) = 1

\* The destroy drain has retired two objects after the worker retired one.
C2_Witness ==
  /\ cpc = "drain"
  /\ frame.cursor = 3
  /\ Len(retired["A"]) = 3

\* C3: every retire callback carries the ring index and fence id of the
\* submit call that enqueued the object, on the queue it was submitted to.
C3_RetireEchoesSubmit ==
  \A q \in Queues : \A i \in 1 .. Len(retired[q]) :
     LET r == retired[q][i] IN
       /\ r.fence_id \in 1 .. Len(calls)
       /\ calls[r.fence_id].queue = q
       /\ calls[r.fence_id].ring_idx = r.ring_idx

\* The only object of the pool was retired twice, with different ring indices.
C3_Witness ==
  /\ Len(syncs) = 1
  /\ Len(retired["A"]) >= 2
  /\ retired["A"][1].ring_idx # retired["A"][2].ring_idx

\* C4: when vkr_queue_destroy returns, the retire callback has fired once per
\* successful submit on the queue and every object ever created is in the
\* free pool, once.
C4_DrainOnDestroy ==
  DestroyReturned =>
    /\ Len(retired[frame.queue]) =
         Cardinality({ t \in 1 .. Len(calls) : calls[t].queue = frame.queue /\ Accepted(t) })
    /\ \A s \in 1 .. Len(syncs) : Count(s, free_syncs) = 1
    /\ Len(free_syncs) = Len(syncs)

\* Destroy has returned after three successful submits on distinct objects,
\* all three fences having signalled (the driver was idle at the call).
C4_Witness ==
  /\ DestroyReturned
  /\ Len(retired["A"]) = 3
  /\ Len(syncs) = 3
  /\ \A s \in 1 .. Len(syncs) : syncs[s].fence = "signaled"

\* C5: WaitForFences is never called for an object whose submission hit
\* device-lost; the worker never holds a timeout for such an object; and the
\* callback fired at its position carries its own token and ring index.
C5_DeviceLostSkipsWait ==
  /\ \A t \in 1 .. Len(calls) :
       calls[t].result = VK_ERROR_DEVICE_LOST =>
         /\ t \notin waited
         /\ \A i \in 1 .. Len(retired[calls[t].queue]) :
              appended[calls[t].queue][i] = t =>
                retired[calls[t].queue][i] = [ring_idx |-> calls[t].ring_idx, fence_id |-> t]
  /\ \A q \in Queues :
       wpc[q] = "relock" /\ syncs[wsync[q]].device_lost =>
         wresult[q] = VK_ERROR_DEVICE_LOST

\* The worker has retired a device-lost object that was second in the list,
\* with no join requested.
C5_Witness ==
  /\ ~join["A"]
  /\ alive["A"]
  /\ Len(retired["A"]) >= 2
  /\ calls[retired["A"][2].fence_id].result = VK_ERROR_DEVICE_LOST

\* C6: a submit whose QueueSubmit returned device-lost returns true with its
\* token appended, and a pending object has device_lost set exactly when the
\* QueueSubmit of the call that enqueued it returned device-lost.
C6_DeviceLostRecorded ==
  /\ \A t \in 1 .. Len(calls) :
       (calls[t].result = VK_ERROR_DEVICE_LOST /\ (t < Len(calls) \/ cpc = "idle")) =>
         Count(t, appended[calls[t].queue]) = 1
  /\ (SubmitReturned /\ calls[frame.fence_id].result = VK_ERROR_DEVICE_LOST) =>
       frame.ret = TRUE
  /\ \A q \in Queues : \A i \in 1 .. Len(pending_syncs[q]) :
       LET s == syncs[pending_syncs[q][i]] IN
         s.device_lost <=> (calls[s.fence_id].result = VK_ERROR_DEVICE_LOST)

\* The pool's only object, device-lost on its first use, is pending again
\* after a successful submission.
C6_Witness ==
  /\ Len(syncs) = 1
  /\ Len(calls) >= 2
  /\ calls[1].result = VK_ERROR_DEVICE_LOST
  /\ calls[2].result = VK_SUCCESS
  /\ pending_syncs["A"] = << 1 >>
  /\ syncs[1].fence_id = 2

\* C7: a submit that does not get past fence creation or QueueSubmit leaves
\* no trace: its token is neither appended, pending nor retired; when it has
\* returned false, either no object exists for it (creation failed on an
\* empty pool) or the object it acquired is in the free pool and nowhere else.
C7_FailedSubmitLeavesNoTrace ==
  /\ \A t \in 1 .. Len(calls) :
       ~Accepted(t) =>
         \A q \in Queues :
           /\ Count(t, appended[q]) = 0
           /\ Count(t, RetiredTokens(q)) = 0
           /\ \A i \in 1 .. Len(pending_syncs[q]) :
                syncs[pending_syncs[q][i]].fence_id # t
  /\ (SubmitReturned /\ frame.ret = FALSE) =>
       /\ ~Accepted(frame.fence_id)
       /\ IF frame.sync = 0
          THEN /\ frame.pool_miss
               /\ \A s \in 1 .. Len(syncs) : syncs[s].fence_id # frame.fence_id
          ELSE /\ Count(frame.sync, free_syncs) = 1
               /\ \A q \in Queues : Count(frame.sync, pending_syncs[q]) = 0
               /\ \A q \in Queues : wsync[q] # frame.sync

\* A submit failed in QueueSubmit while an earlier object was still pending.
C7_Witness ==
  /\ SubmitReturned
  /\ frame.ret = FALSE
  /\ frame.sync # 0
  /\ Len(pending_syncs["A"]) >= 1
  /\ alive["A"]

\* C8: as long as no submit has begun while an object was outside the pool,
\* at most one native fence has ever been created, and exactly one once a
\* submit got past creation; and a fence is created only by a call that found
\* the free list empty when it held the pool lock.
C8_PoolReuse ==
  [][ /\ ~overlap' => Len(syncs') <= 1
      /\ (~overlap' /\ \E t \in 1 .. Len(calls') : calls'[t].result # "none") =>
           Len(syncs') = 1
      /\ Len(syncs') > Len(syncs) => frame.pool_miss ]_vars

\* Three submit/retire cycles, one after the other, on a single object.
C8_Witness ==
  /\ ~overlap
  /\ Len(retired["A"]) = 3
  /\ Len(syncs) = 1
  /\ free_syncs = << 1 >>

\* The places an object can be.
InPool(s) == Count(s, free_syncs)

\* Entries of q's pending list; vkr_queue_destroy's walk has already linked
\* the entries before its cursor into the free list.
Drained(q, i) ==
  /\ cpc \in {"drain", "drain_lock", "drain_free"}
  /\ frame.queue = q
  /\ i < frame.cursor

InRegistry(s, q) ==
  Cardinality({ i \in 1 .. Len(pending_syncs[q]) :
                  pending_syncs[q][i] = s /\ ~Drained(q, i) })

\* The submitting thread holds the object between acquisition and enqueue or
\* release.
HeldBySubmit(s) ==
  IF /\ frame.op = "submit"
     /\ frame.sync = s
     /\ cpc \in {"reset", "submit", "release_lock", "release", "enqueue_lock", "enqueue"}
  THEN 1 ELSE 0

\* The worker holds the object between list_del and the release to the pool.
HeldByWorker(s, q) ==
  IF wsync[q] = s /\ wpc[q] \in {"free_lock", "free"} THEN 1 ELSE 0

RECURSIVE SumOver(_, _)
SumOver(f, S) ==
  IF S = {} THEN 0
  ELSE LET x == CHOOSE y \in S : TRUE IN f[x] + SumOver(f, S \ {x})

Owners(s) ==
  InPool(s) + HeldBySubmit(s)
    + SumOver([q \in Queues |-> InRegistry(s, q) + HeldByWorker(s, q)], Queues)

\* C9 as stated: every object is in the free pool or in one queue's pending
\* list, never in both and never in neither.
C9_PoolOrRegistry ==
  \A s \in 1 .. Len(syncs) :
     InPool(s) + SumOver([q \in Queues |-> Count(s, pending_syncs[q])], Queues) = 1

\* C9 amended: every object has exactly one owner among the free pool, the
\* pending lists (less the entries vkr_queue_destroy's walk has already put
\* back), the submitting thread between acquisition and enqueue or release,
\* and a worker between unlinking and release.
C9_ExactlyOneOwner == \A s \in 1 .. Len(syncs) : Owners(s) = 1

\* Two objects in transit at once: A's worker holds one it has unlinked and
\* not yet released, the dispatch thread holds the other for a submit on B.
C9_Witness ==
  /\ Len(syncs) = 2
  /\ \E s \in 1 .. 2 : HeldByWorker(s, "A") = 1
  /\ \E s \in 1 .. 2 : HeldBySubmit(s) = 1 /\ frame.queue = "B"

\* C10: a vkGetDeviceQueue2 that names queue B and a ring index whose slot
\* refers to another queue A sets the fatal flag and leaves the slot, A's ring
\* index, B's ring index and B's id as they were.
C10_RingExclusive ==
  [][ ( /\ cpc = "vkGetDeviceQueue2"
        /\ cpc' = "idle"
        /\ frame.timeline
        /\ vkr_device_lookup_queue(frame.queue) # NULL
        /\ ~RingInvalid(frame.ring_idx)
        /\ sync_queues[frame.ring_idx] \in Queues \ {frame.queue} )
      => ( /\ fatal'
           /\ sync_queues'[frame.ring_idx] = sync_queues[frame.ring_idx]
           /\ ring_idx'[sync_queues[frame.ring_idx]] = ring_idx[sync_queues[frame.ring_idx]]
           /\ ring_idx'[frame.queue] = ring_idx[frame.queue]
           /\ base_id'[frame.queue] = base_id[frame.queue] ) ]_vars

\* The command binding ring 1 to B has returned: the stream is fatal, ring 1
\* is A's, and B is unbound and unnamed.
C10_Witness ==
  /\ cpc = "idle"
  /\ frame.op = "vkGetDeviceQueue2"
  /\ frame.ret = TRUE
  /\ frame.queue = "B"
  /\ frame.timeline
  /\ frame.ring_idx = 1
  /\ frame.id = 2
  /\ sync_queues[1] = "A"
  /\ ring_idx["A"] = 1
  /\ ring_idx["B"] = 0
  /\ base_id["B"] = 0
  /\ fatal

\* C11: no two live queues have the same non-zero ring index, whatever
\* vkGetDeviceQueue, vkGetDeviceQueue2 and vkr_queue_destroy calls were made.
C11_RingIndexUnique ==
  \A q1, q2 \in Queues :
     (alive[q1] /\ alive[q2] /\ q1 # q2 /\ ring_idx[q1] # 0) =>
        ring_idx[q1] # ring_idx[q2]

\* A was bound to ring 1 and then to ring 2; B, still live, asked for ring 1
\* and was refused.
C11_Witness ==
  /\ alive["A"]
  /\ alive["B"]
  /\ ring_idx["A"] = 2
  /\ sync_queues[1] = "A"
  /\ sync_queues[2] = "A"
  /\ cpc = "idle"
  /\ frame.op = "vkGetDeviceQueue2"
  /\ frame.queue = "B"
  /\ frame.timeline
  /\ frame.ring_idx = 1
  /\ ring_idx["B"] = 0

\* C12: a vkGetDeviceQueue2 whose timeline info carries ring index 0 or an
\* index at or beyond the size of the binding table sets the fatal flag and
\* leaves the binding table, every queue's ring index and every queue's id
\* as they were.
C12_InvalidRingRejected ==
  [][ ( /\ cpc = "vkGetDeviceQueue2"
        /\ cpc' = "idle"
        /\ frame.timeline
        /\ (frame.ring_idx = 0 \/ frame.ring_idx >= RingTableSize) )
      => ( /\ fatal'
           /\ sync_queues' = sync_queues
           /\ ring_idx' = ring_idx
           /\ base_id' = base_id
           /\ object_table' = object_table ) ]_vars

\* A, bound to ring 1 under id 1, was named again with a ring index beyond
\* the table and a fresh id: the command has returned and nothing moved.
C12_Witness ==
  /\ cpc = "idle"
  /\ frame.op = "vkGetDeviceQueue2"
  /\ frame.ret = TRUE
  /\ frame.queue = "A"
  /\ frame.timeline
  /\ frame.ring_idx >= RingTableSize
  /\ frame.id = 2
  /\ fatal
  /\ ring_idx["A"] = 1
  /\ sync_queues[1] = "A"
  /\ base_id["A"] = 1

\* The handler about to return is one that reaches vkr_queue_assign_object_id
\* (lines 294 and 335): the queue exists and no ring test has failed.
AssignReached ==
  /\ cpc \in {"vkGetDeviceQueue", "vkGetDeviceQueue2"}
  /\ vkr_device_lookup_queue(frame.queue) # NULL
  /\ (cpc = "vkGetDeviceQueue2" /\ frame.timeline) =>
        (~RingInvalid(frame.ring_idx) /\ ~RingClaimed(frame.ring_idx))

\* C13: the id of a live queue, once non-zero, never changes; assigning the
\* stored id again changes neither the ids nor the fatal flag; assigning
\* another id sets the fatal flag and keeps the stored id; an id that fails
\* the context's validation is not recorded, the queue's id stays zero.
C13_IdImmutable ==
  [][ /\ \A q \in Queues :
           (base_id[q] # 0 /\ alive'[q]) => base_id'[q] = base_id[q]
      /\ (AssignReached /\ cpc' = "idle") =>
           LET q == frame.queue IN
             /\ (base_id[q] # 0 /\ frame.id = base_id[q]) =>
                   /\ base_id' = base_id
                   /\ object_table' = object_table
                   /\ fatal' = fatal
             /\ (base_id[q] # 0 /\ frame.id # base_id[q]) =>
                   /\ fatal'
                   /\ base_id' = base_id
                   /\ object_table' = object_table
             /\ (base_id[q] = 0 /\ ~vkr_context_validate_object_id(frame.id)) =>
                   /\ base_id'[q] = 0
                   /\ base_id' = base_id
                   /\ object_table' = object_table ]_vars

\* A, known as 1, was named with id 2 by a vkGetDeviceQueue that has
\* returned: the stream is fatal and A is still 1; B, live, has no id.
C13_Witness ==
  /\ cpc = "idle"
  /\ frame.op = "vkGetDeviceQueue"
  /\ frame.ret = TRUE
  /\ frame.queue = "A"
  /\ frame.id = 2
  /\ base_id["A"] = 1
  /\ base_id["B"] = 0
  /\ alive["B"]
  /\ object_table[1] = "queue"
  /\ object_table[2] = NoObject
  /\ fatal

\* The worker of q leaves its loop in this step.
WorkerExits(q) == wpc[q] = "loop" /\ wpc'[q] = "done"

\* C14 as stated: the worker leaves its loop only when it has observed the
\* join request with an empty pending list; a join observed with objects
\* pending does not make it exit before it has retired them.
C14_ExitsOnlyWhenEmpty ==
  [][ \A q \in Queues : WorkerExits(q) => LIST_IS_EMPTY(pending_syncs[q]) ]_vars

\* C14 amended: the worker, at the top of its loop with the queue lock held,
\* leaves the loop exactly when join is set, whatever the pending list holds;
\* from then on it retires nothing, and the objects it left are handed to the
\* retire callback by vkr_queue_destroy's walk, in list order.
C14_ExitsOnJoin ==
  [][ \A q \in Queues :
        /\ (wpc[q] = "loop" /\ wpc'[q] # "loop") =>
              (wpc'[q] = "done" <=> join[q])
        /\ (wpc[q] = "done" /\ alive'[q]) =>
              /\ wpc'[q] = "done"
              /\ pending_syncs'[q] = pending_syncs[q]
        /\ (wpc[q] = "done" /\ Len(retired'[q]) > Len(retired[q])) =>
              /\ cpc = "drain"
              /\ frame.queue = q
              /\ retired'[q] = Append(retired[q],
                                      RetireArgs(syncs[pending_syncs[q][frame.cursor]])) ]_vars

\* The worker has returned with two objects still pending, their fences
\* signalled, after retiring one itself.
C14_Witness ==
  /\ wpc["A"] = "done"
  /\ join["A"]
  /\ Len(pending_syncs["A"]) = 2
  /\ \A i \in 1 .. 2 : syncs[pending_syncs["A"][i]].fence = "signaled"
  /\ Len(retired["A"]) = 1
  /\ cpc = "thrd_join"

\* The worker of q has its result and takes the queue lock again (line 178).
WorkerDecides(q) == wpc[q] = "relock" /\ wpc'[q] # "relock"

\* The object the worker observed is left where it was: still first in the
\* pending list, no callback.
LeftAtHead(q) ==
  /\ pending_syncs'[q] = pending_syncs[q]
  /\ Head(pending_syncs'[q]) = wsync[q]
  /\ retired'[q] = retired[q]

\* The object the worker observed is unlinked and handed to the callback.
Retires(q) ==
  /\ pending_syncs'[q] = list_del(wsync[q], pending_syncs[q])
  /\ retired'[q] = Append(retired[q], RetireArgs(syncs[wsync[q]]))

\* C15 as stated: unless the object carries device_lost from its submission,
\* every result of the worker's wait other than success leaves the object at
\* the head of the pending list with no callback fired.
C15_OnlySubmitLossSkipsRetry ==
  [][ \A q \in Queues :
        (WorkerDecides(q) /\ ~syncs[wsync[q]].device_lost /\ wresult[q] # VK_SUCCESS)
          => LeftAtHead(q) ]_vars

\* C15 amended: the worker leaves the object at the head, with no callback,
\* exactly when WaitForFences returned VK_TIMEOUT; with device_lost set at
\* submission, or with any other result of the wait, success or an error of
\* the wait itself, it unlinks the object and fires the callback.
C15_OnlyTimeoutRetried ==
  [][ \A q \in Queues :
        WorkerDecides(q) =>
          IF ~syncs[wsync[q]].device_lost /\ wresult[q] = VK_TIMEOUT
          THEN LeftAtHead(q)
          ELSE Retires(q) ]_vars

\* The worker has fired the callback for an object whose fence never
\* signalled and whose submission succeeded: the wait itself failed.
C15_Witness ==
  /\ wpc["A"] = "free_lock"
  /\ syncs[wsync["A"]].fence = "pending"
  /\ ~syncs[wsync["A"]].device_lost
  /\ syncs[wsync["A"]].fence_id \in waited
  /\ retired["A"][Len(retired["A"])].fence_id = syncs[wsync["A"]].fence_id
  /\ Len(pending_syncs["A"]) >= 1

\* C16: when the worker's wait on the first pending object timed out, the
\* object stays first in the pending list, no callback fires and the free
\* list is untouched, whatever was appended during the wait; the worker keeps
\* the queue lock up to its next look at the list, and with no join set the
\* object it waits on next is that same first object.
C16_TimeoutRetriesSame ==
  [][ \A q \in Queues :
        /\ (WorkerDecides(q) /\ wresult[q] = VK_TIMEOUT) =>
              /\ LeftAtHead(q)
              /\ free_syncs' = free_syncs
              /\ wpc'[q] = "loop"
              /\ mutex'[q] = q
        /\ (wpc[q] = "loop" /\ wpc'[q] = "loop") =>
              /\ pending_syncs'[q] = pending_syncs[q]
              /\ join'[q] = join[q]
        /\ (wpc[q] = "loop" /\ wpc'[q] # "loop"
              /\ ~join[q] /\ ~LIST_IS_EMPTY(pending_syncs[q])) =>
              /\ wpc'[q] = "wait"
              /\ wsync'[q] = Head(pending_syncs[q])
        /\ wpc'[q] \in {"wait", "relock"} => wsync'[q] = Head(pending_syncs'[q]) ]_vars

\* The worker waits again on an object it has already waited on once, a
\* second object having been appended behind it.
C16_Witness ==
  /\ wpc["A"] = "wait"
  /\ ~join["A"]
  /\ Len(pending_syncs["A"]) = 2
  /\ wsync["A"] = pending_syncs["A"][1]
  /\ syncs[wsync["A"]].fence_id \in waited
  /\ syncs[pending_syncs["A"][2]].fence_id \notin waited

\* The locks thread t holds: the pool lock and the queue locks.
LocksHeld(t) ==
  (IF free_sync_mutex = t THEN {"free_sync_mutex"} ELSE {})
    \cup { q \in Queues : mutex[q] = t }

\* The dispatch thread is at CreateFence, ResetFences or QueueSubmit.
CtxInDriver == cpc \in {"create", "reset", "submit"}

\* The worker of q is at WaitForFences.
WorkerInDriver(q) == wpc[q] = "wait" /\ ~WaitSkipped(syncs[wsync[q]])

\* C19: a thread inside CreateFence, ResetFences, QueueSubmit or
\* WaitForFences holds neither the pool lock nor any queue's lock.
C19_NoLockAcrossDriverCall ==
  /\ CtxInDriver => LocksHeld(CtxThread) = {}
  /\ \A q \in Queues : WorkerInDriver(q) => LocksHeld(q) = {}

\* The dispatch thread resets a recycled fence while the worker waits on
\* another object's fence.
C19_Witness ==
  /\ cpc = "reset"
  /\ WorkerInDriver("A")
  /\ wsync["A"] # frame.sync

\* The command about to be handled breaks the protocol: it names no queue of
\* the device, or carries a ring index that is invalid or taken, or an id
\* other than the one the queue already has.
ProtocolViolation ==
  /\ cpc \in {"vkGetDeviceQueue", "vkGetDeviceQueue2"}
  /\ LET q == vkr_device_lookup_queue(frame.queue) IN
       \/ q = NULL
       \/ /\ cpc = "vkGetDeviceQueue2"
          /\ frame.timeline
          /\ (RingInvalid(frame.ring_idx) \/ RingClaimed(frame.ring_idx))
       \/ /\ q # NULL
          /\ base_id[q] # 0
          /\ frame.id # base_id[q]

\* C20: a vkGetDeviceQueue or vkGetDeviceQueue2 that breaks the protocol
\* sets the fatal flag and changes nothing else: the ring table, every
\* queue's ring index and every queue's id are as before the call, also when
\* a vkGetDeviceQueue2 carries a valid, free ring index with an id other than
\* the queue's own.
C20_FatalChangesNothing ==
  [][ (ProtocolViolation /\ cpc' = "idle") =>
        /\ fatal'
        /\ sync_queues' = sync_queues
        /\ ring_idx' = ring_idx
        /\ base_id' = base_id ]_vars

\* A, known as 1 and unbound, was named by a vkGetDeviceQueue2 carrying ring 1
\* and id 2: the stream is fatal and ring 1 is bound to A.
C20_Witness ==
  /\ cpc = "idle"
  /\ frame.op = "vkGetDeviceQueue2"
  /\ frame.ret = TRUE
  /\ frame.queue = "A"
  /\ frame.timeline
  /\ frame.ring_idx = 1
  /\ frame.id = 2
  /\ base_id["A"] = 1
  /\ fatal
  /\ ring_idx["A"] = 1
  /\ sync_queues[1] = "A"

\* C17: under fair scheduling, with the driver completing every fence, every
\* token appended to a queue's pending list is eventually handed to the
\* retire callback, and a worker blocked in cnd_wait while its list is not
\* empty or join is set eventually leaves cnd_wait.
C17_EveryTokenRetired ==
  /\ \A q \in Queues : \A t \in 1 .. MaxSubmitsFair :
        (Count(t, appended[q]) = 1) ~> (Count(t, RetiredTokens(q)) = 1)
  /\ \A q \in Queues :
        (wpc[q] = "cnd_wait" /\ (~LIST_IS_EMPTY(pending_syncs[q]) \/ join[q]))
          ~> (wpc[q] # "cnd_wait")

\* The worker is blocked in cnd_wait, an object has just been appended and
\* the signal of line 104 is still to come.
C17_Witness ==
  /\ wpc["A"] = "cnd_wait"
  /\ cpc = "signal"
  /\ Len(pending_syncs["A"]) = 1
  /\ Len(retired["A"]) >= 1

\* vkr_queue_destroy has been entered for q and has not returned.
InDestroy(q) == frame.op = "destroy" /\ frame.queue = q /\ cpc # "idle"

\* C18: under fair scheduling, with every bounded wait returning, a
\* vkr_queue_destroy that was entered returns; it is past thrd_join only once
\* the worker has returned; and a worker that finds join set at the top of
\* its loop starts no driver wait: after join is set the only wait it can
\* still complete is the one it had already picked an object for.
C18_DestroyTerminates ==
  /\ \A q \in Queues : InDestroy(q) ~> (DestroyReturned /\ frame.queue = q)
  /\ [](\A q \in Queues :
          /\ (InDestroy(q) /\ cpc \in {"drain", "drain_lock", "drain_free"}) =>
                wpc[q] = "done"
          /\ (DestroyReturned /\ frame.queue = q) => wpc[q] = "gone")
  /\ [][ \A q \in Queues :
           /\ (join[q] /\ wpc[q] # "wait") => wpc'[q] # "wait"
           /\ (wpc[q] # "gone" /\ wpc'[q] = "gone") => wpc[q] = "done" ]_vars

\* join was set while the worker was inside a wait; it has returned from
\* that wait and not yet looked at join.
C18_Witness ==
  /\ join["A"]
  /\ wpc["A"] = "relock"
  /\ cpc = "thrd_join"
  /\ syncs[wsync["A"]].fence_id \in waited

\* C21: for every non-zero ring index k, slot k of the ring table is empty
\* or refers to a live queue whose ring index is k, and every live queue with
\* a non-zero ring index k is what slot k refers to; no slot refers to a
\* destroyed queue.
C21_RingTableConsistent ==
  /\ \A k \in 1 .. RingTableSize - 1 :
        \/ sync_queues[k] = NULL
        \/ /\ sync_queues[k] \in Queues
           /\ alive[sync_queues[k]]
           /\ ring_idx[sync_queues[k]] = k
  /\ \A q \in Queues :
        (alive[q] /\ ring_idx[q] # 0) => sync_queues[ring_idx[q]] = q

\* A was bound to ring 1, then to ring 2, then destroyed: vkr_queue_destroy
\* has returned, slot 2 is empty and slot 1 still refers to A.
C21_Witness ==
  /\ DestroyReturned
  /\ frame.queue = "A"
  /\ ~alive["A"]
  /\ sync_queues[1] = "A"
  /\ sync_queues[2] = NULL
  /\ ~fatal

\* The threads: the dispatch thread and one worker per queue.
Threads == {CtxThread} \cup Queues

\* The lock thread t is about to take with mtx_lock: "free_sync_mutex", a
\* queue (for its mutex), or NoThread when t is not at a mtx_lock.
Wants(t) ==
  IF t = CtxThread
  THEN IF cpc \in {"alloc_lock", "release_lock", "drain_lock"} THEN "free_sync_mutex"
       ELSE IF cpc \in {"enqueue_lock", "join_lock"} THEN frame.queue
       ELSE NoThread
  ELSE IF wpc[t] \in {"start", "woken", "relock"} THEN t
       ELSE IF wpc[t] = "free_lock" THEN "free_sync_mutex"
       ELSE NoThread

Holder(lock) == IF lock = "free_sync_mutex" THEN free_sync_mutex ELSE mutex[lock]

\* Thread t is inside mtx_lock and the lock is taken.
Blocked(t) == Wants(t) # NoThread /\ Holder(Wants(t)) # NoThread

\* Thread t is not blocked, or the lock it waits for is held by a thread of
\* which the same is true, over at most n holders.
RECURSIVE Proceeds(_, _)
Proceeds(t, n) ==
  \/ ~Blocked(t)
  \/ n > 0 /\ Proceeds(Holder(Wants(t)), n - 1)

\* Thread t has nothing left to do before another thread acts: the dispatch
\* thread between calls, a worker in cnd_wait or returned.
Parked(t) ==
  IF t = CtxThread THEN cpc = "idle"
  ELSE wpc[t] \in {"cnd_wait", "done", "gone"}

\* C22: the locking protocol is free of deadlock.  In every state each thread
\* inside mtx_lock waits for a lock whose holder can run, or waits itself for
\* a lock whose holder can run; a parked thread holds no lock; so the threads
\* still at work are never all blocked on locks.  The pool lock is taken
\* with no lock held or with exactly one queue lock held, and a queue lock is
\* never taken while the pool lock is held.
C22_DeadlockFree ==
  /\ [](/\ \A t \in Threads : Proceeds(t, 2)
        /\ \A t \in Threads : Parked(t) => LocksHeld(t) = {}
        /\ (\E t \in Threads : ~Parked(t)) =>
              \E t \in Threads : ~Parked(t) /\ ~Blocked(t))
  /\ [][ \A t \in Threads :
           /\ (free_sync_mutex # t /\ free_sync_mutex' = t) =>
                 Cardinality(LocksHeld(t)) <= 1
           /\ \A q \in Queues :
                 (mutex[q] # t /\ mutex'[q] = t) => free_sync_mutex # t ]_vars

\* A's worker, holding its queue lock, is blocked on the pool lock, which the
\* dispatch thread holds for a submit on B; B's worker is in cnd_wait.
C22_Witness ==
  /\ wpc["A"] = "free_lock"
  /\ mutex["A"] = "A"
  /\ free_sync_mutex = CtxThread
  /\ cpc = "alloc_check"
  /\ frame.queue = "B"
  /\ wpc["B"] = "cnd_wait"
  /\ Blocked("A")

====
